---- MODULE Spec2Model ----
(***************************************************************************)
(* Model of the PlanDefinition -> BPMN conversion engine:                  *)
(*   src/src/lib/BpmnFactory.ts            (graph builder and layout)      *)
(*   src/src/lib/plandefinition-to-bpmn.ts (walker, composer, serializer)  *)
(*                                                                         *)
(* Representation of JavaScript values                                     *)
(*   - A user-supplied string is a "text": a sequence of chunks, where a   *)
(*     chunk is either one of the five XML reserved characters             *)
(*     & < > " ' on its own, or a non-empty run of other characters.       *)
(*     No two runs are adjacent, so equal strings are equal texts.         *)
(*   - An identifier generated by the factory is a plain TLA+ string.      *)
(*   - An optional input value is <<>> (absent) or <<v>> (present).        *)
(*   - A BPMN element is a record that has exactly the fields the code     *)
(*     sets on the object; a field the code leaves out is not in DOMAIN.   *)
(***************************************************************************)
EXTENDS Integers, Sequences, FiniteSets, TLC

VARIABLES
    doc,         \* the planDefinition argument (optional value: <<>> is null)
    run,         \* number of the current call of convertPlanDefinitionToBpmn on doc
    pc,          \* position inside convertPlanDefinitionToBpmn ("api": a caller drives a BpmnFactory directly)
    factories,   \* every BpmnFactory instance constructed so far, in construction order
    top,         \* locals of convertPlanDefinitionToBpmn
    stack,       \* activation records of processActions, innermost last
    outputs,     \* what each finished call returned or threw, in call order
    console,     \* console.warn / console.error calls, in call order
    parked       \* a second conversion, suspended between two of its steps (optional value)

vars == <<doc, run, pc, factories, top, stack, outputs, console, parked>>

----------------------------------------------------------------------------
(* Bounds of the model *)

MaxActions == 3     \* actions in one PlanDefinition, counted at every depth
MaxRichActions == 2 \* the same, in the documents that use every action shape
MaxRuns == 2        \* conversions of the same document
MaxApiOps == 4      \* factory calls of a direct caller

----------------------------------------------------------------------------
(* Texts *)

None == <<>>
Some(v) == <<v>>

Reserved == {"&", "<", ">", "\"", "'"}

Last(s) == s[Len(s)]
Front(s) == SubSeq(s, 1, Len(s) - 1)

\* String concatenation a + b of two texts.
Concat(a, b) ==
    IF a = <<>> THEN b
    ELSE IF b = <<>> THEN a
    ELSE IF Last(a) \notin Reserved /\ b[1] \notin Reserved
         THEN Front(a) \o <<Last(a) \o b[1]>> \o Tail(b)
         ELSE a \o b

\* parts.join(sep) for a sequence of texts.
RECURSIVE Join(_, _)
Join(parts, sep) ==
    IF parts = <<>> THEN <<>>
    ELSE IF Len(parts) = 1 THEN parts[1]
    ELSE Concat(Concat(parts[1], sep), Join(Tail(parts), sep))

\* JavaScript truthiness of an optional string: absent and "" are falsy.
Truthy(opt) == opt # None /\ opt[1] # <<>>

\* a || b for optional strings.
Or(a, b) == IF Truthy(a) THEN a ELSE b

\* The text of a factory-generated identifier (it has no reserved character).
IdText(id) == IF id = "" THEN <<>> ELSE <<id>>

----------------------------------------------------------------------------
(* escapeXml *)

\* text.replace(/ch/g, rep) on a chunk sequence; rep is a chunk sequence.
RECURSIVE ReplaceAll(_, _, _)
ReplaceAll(t, ch, rep) ==
    IF t = <<>> THEN <<>>
    ELSE (IF t[1] = ch THEN rep ELSE <<t[1]>>) \o ReplaceAll(Tail(t), ch, rep)

escapeXmlAmpLast(text) ==
    IF text = <<>> THEN <<>>
    ELSE ReplaceAll(
           ReplaceAll(
             ReplaceAll(
               ReplaceAll(
                 ReplaceAll(text, "<", <<"&", "lt;">>),
                 ">", <<"&", "gt;">>),
               "\"", <<"&", "quot;">>),
             "'", <<"&", "apos;">>),
           "&", <<"&", "amp;">>)

escapeXml(text) ==
    IF text = <<>> THEN <<>>
    ELSE ReplaceAll(
           ReplaceAll(
             ReplaceAll(
               ReplaceAll(
                 ReplaceAll(text, "&", <<"&", "amp;">>),
                 "<", <<"&", "lt;">>),
               ">", <<"&", "gt;">>),
             "\"", <<"&", "quot;">>),
           "'", <<"&", "apos;">>)

----------------------------------------------------------------------------
(* BpmnFactory *)

HORIZONTAL_SPACING == 180
TASK_WIDTH == 120
TASK_HEIGHT == 80
GATEWAY_SIZE == 50
EVENT_SIZE == 36
InitialX == 100
InitialY == 150

\* new BpmnFactory(): the field initialisers; prev is the list of instances
\* that already exist (an instance shares nothing with them).
NewFactorySharedCounters(prev) ==
    [elements |-> <<>>, diElements |-> <<>>,
     elementCounter |-> IF prev = <<>> THEN 0 ELSE Last(prev).elementCounter,
     flowCounter |-> IF prev = <<>> THEN 0 ELSE Last(prev).flowCounter,
     currentX |-> InitialX, currentY |-> InitialY]

NewFactory(prev) ==
    [elements |-> <<>>, diElements |-> <<>>,
     elementCounter |-> 0, flowCounter |-> 0,
     currentX |-> InitialX, currentY |-> InitialY]

\* The result of a factory method: the instance after the call and the
\* value returned.
Ret(f, id) == [f |-> f, id |-> id]

generateIdNoIncrement(f, prefix) ==
    Ret(f, prefix \o "_" \o ToString(f.elementCounter + 1))

generateId(f, prefix) ==
    Ret([f EXCEPT !.elementCounter = @ + 1],
        prefix \o "_" \o ToString(f.elementCounter + 1))

generateFlowId(f) ==
    Ret([f EXCEPT !.flowCounter = @ + 1],
        "Flow_" \o ToString(f.flowCounter + 1))

getCenterY(f, elementHeight) == f.currentY - elementHeight \div 2

advanceXNoSpacing(f, elementWidth) ==
    [f EXCEPT !.currentX = @ + elementWidth]

advanceX(f, elementWidth) ==
    [f EXCEPT !.currentX = @ + elementWidth + HORIZONTAL_SPACING]

\* The shape pushed to diElements by every node-creation method.
Shape(f, id, width, height) ==
    [id |-> id \o "_di", bpmnElement |-> id,
     x |-> f.currentX, y |-> getCenterY(f, height),
     width |-> width, height |-> height]

\* this.elements.push(element); this.diElements.push(shape); this.advanceX(width)
PushNode(f, element, width, height) ==
    advanceX([f EXCEPT !.elements = Append(@, element),
                       !.diElements = Append(@, Shape(f, element.id, width, height))],
             width)

createStartEvent(f) ==
    LET g == generateId(f, "StartEvent") IN
    Ret(PushNode(g.f, [id |-> g.id, type |-> "startEvent", name |-> <<"Start">>,
                       outgoing |-> <<>>],
                 EVENT_SIZE, EVENT_SIZE),
        g.id)

createEndEvent(f, incomingFlowId) ==
    LET g == generateId(f, "EndEvent") IN
    Ret(PushNode(g.f, [id |-> g.id, type |-> "endEvent", name |-> <<"End">>,
                       incoming |-> <<incomingFlowId>>],
                 EVENT_SIZE, EVENT_SIZE),
        g.id)

createTask(f, name, incomingFlowId, documentation) ==
    LET g == generateId(f, "Task") IN
    Ret(PushNode(g.f, [id |-> g.id, type |-> "task", name |-> name,
                       documentation |-> documentation,
                       incoming |-> <<incomingFlowId>>, outgoing |-> <<>>],
                 TASK_WIDTH, TASK_HEIGHT),
        g.id)

createExclusiveGateway(f, name, incomingFlowId) ==
    LET g == generateId(f, "Gateway") IN
    Ret(PushNode(g.f, [id |-> g.id, type |-> "exclusiveGateway", name |-> name,
                       incoming |-> <<incomingFlowId>>, outgoing |-> <<>>],
                 GATEWAY_SIZE, GATEWAY_SIZE),
        g.id)

createIntermediateEvent(f, name, incomingFlowId, documentation) ==
    LET g == generateId(f, "IntermediateEvent") IN
    Ret(PushNode(g.f, [id |-> g.id, type |-> "intermediateEvent", name |-> name,
                       documentation |-> documentation,
                       incoming |-> <<incomingFlowId>>, outgoing |-> <<>>],
                 EVENT_SIZE, EVENT_SIZE),
        g.id)

\* Array.prototype.find as an index: the first position whose record has
\* value v in the given field, 0 when there is none.
FindIndex(list, field, v) ==
    LET hits == {k \in 1..Len(list) : list[k][field] = v} IN
    IF hits = {} THEN 0 ELSE CHOOSE k \in hits : \A j \in hits : k <= j

PushRefOverwrite(e, field, id) ==
    IF field \in DOMAIN e
    THEN [e EXCEPT ![field] = <<id>>]
    ELSE e @@ (field :> <<id>>)

\* if (!e.outgoing) e.outgoing = []; e.outgoing.push(id)   (same for incoming)
PushRef(e, field, id) ==
    IF field \in DOMAIN e
    THEN [e EXCEPT ![field] = Append(@, id)]
    ELSE e @@ (field :> <<id>>)

\* elements.find(e => e.id === nodeId), then PushRef on it when found.
LinkRef(elements, nodeId, field, id) ==
    LET k == FindIndex(elements, "id", nodeId) IN
    IF k = 0 THEN elements ELSE [elements EXCEPT ![k] = PushRef(@, field, id)]

\* (shape.x || 0)
OrZero(rec, field) == IF field \in DOMAIN rec THEN rec[field] ELSE 0

EdgeFromLeftSide(id, sourceShape, targetShape) ==
    [id |-> id \o "_di", bpmnElement |-> id,
     waypoints |->
       << [x |-> OrZero(sourceShape, "x"),
           y |-> OrZero(sourceShape, "y") + OrZero(sourceShape, "height") \div 2],
          [x |-> OrZero(targetShape, "x"),
           y |-> OrZero(targetShape, "y") + OrZero(targetShape, "height") \div 2] >>]

\* The edge pushed to diElements when both endpoint shapes are found.
Edge(id, sourceShape, targetShape) ==
    [id |-> id \o "_di", bpmnElement |-> id,
     waypoints |->
       << [x |-> OrZero(sourceShape, "x") + OrZero(sourceShape, "width"),
           y |-> OrZero(sourceShape, "y") + OrZero(sourceShape, "height") \div 2],
          [x |-> OrZero(targetShape, "x"),
           y |-> OrZero(targetShape, "y") + OrZero(targetShape, "height") \div 2] >>]

\* The flow element; name and conditionExpression are set only when truthy.
FlowElement(id, sourceId, targetId, conditionExpression, name) ==
    [id |-> id, type |-> "sequenceFlow", sourceRef |-> sourceId, targetRef |-> targetId]
    @@ (IF Truthy(name) THEN [name |-> name[1]] ELSE <<>>)
    @@ (IF Truthy(conditionExpression)
        THEN [conditionExpression |-> conditionExpression[1]] ELSE <<>>)

createSequenceFlow(f, sourceId, targetId, conditionExpression, name) ==
    LET g == generateFlowId(f)
        pushed == Append(g.f.elements,
                         FlowElement(g.id, sourceId, targetId, conditionExpression, name))
        linked == LinkRef(LinkRef(pushed, sourceId, "outgoing", g.id),
                          targetId, "incoming", g.id)
        s == FindIndex(g.f.diElements, "bpmnElement", sourceId)
        t == FindIndex(g.f.diElements, "bpmnElement", targetId)
        di == IF s # 0 /\ t # 0
              THEN Append(g.f.diElements, Edge(g.id, g.f.diElements[s], g.f.diElements[t]))
              ELSE g.f.diElements
    IN Ret([g.f EXCEPT !.elements = linked, !.diElements = di], g.id)

----------------------------------------------------------------------------
(* Input documents *)

T_AB == <<"A ", "&", " B ", "<", "test", ">">>                 \* A & B <test>
T_Review == <<"Review">>
D_Quote == <<"Say ", "\"", "hi", "\"", " ", "&", "lt; it", "'", "s">>  \* Say "hi" &lt; it's
E_Adult == <<"patient.age ", ">", "= 18">>                     \* patient.age >= 18
E_Low == <<"x ", "<", " 5">>                                   \* x < 5
N_Admit == <<"admit">>
Ty_Named == <<"named-event">>
L_Cql == <<"text/cql">>

Trigger(type, name) == [type |-> type, name |-> name]
Condition(expression) == [expression |-> expression]
Expression(language, expression) == [language |-> language, expression |-> expression]

\* The actions the documents are built from, without their sub-actions.
\* The fields type, dynamicValue, documentation and relatedAction are absent
\* in every modelled action.

\* titled, described, no trigger, no condition
PlainAction ==
    [title |-> Some(T_AB), description |-> Some(D_Quote), textEquivalent |-> None,
     trigger |-> <<>>, condition |-> <<>>]

\* described only, one condition with an expression
ConditionedAction ==
    [title |-> None, description |-> Some(D_Quote), textEquivalent |-> Some(T_Review),
     trigger |-> <<>>,
     condition |-> <<Condition(Some(Expression(Some(L_Cql), Some(E_Adult))))>>]

\* neither title nor description; triggers, some without a usable name
TriggeredAction ==
    [title |-> None, description |-> None, textEquivalent |-> None,
     trigger |-> <<Trigger(None, None), Trigger(Some(Ty_Named), Some(<<>>)),
                   Trigger(None, Some(N_Admit))>>,
     condition |-> <<>>]

\* empty title and description; a trigger and two conditions, the first
\* without expression
TriggeredConditionedAction ==
    [title |-> Some(<<>>), description |-> Some(<<>>), textEquivalent |-> None,
     trigger |-> <<Trigger(Some(Ty_Named), Some(N_Admit))>>,
     condition |-> <<Condition(None), Condition(Some(Expression(None, Some(E_Low))))>>]

\* titled; one condition whose expression text is the empty string
EmptyConditionAction ==
    [title |-> Some(T_Review), description |-> None, textEquivalent |-> None,
     trigger |-> <<>>,
     condition |-> <<Condition(Some(Expression(None, Some(<<>>))))>>]

CoreShapes == {PlainAction, ConditionedAction, TriggeredAction}
ActionShapes == CoreShapes \cup {TriggeredConditionedAction, EmptyConditionAction}

\* Ordered forests of exactly n actions / trees of exactly n actions, the
\* actions taken from shapes.
RECURSIVE ForestsOfSize(_, _), TreesOfSize(_, _)
ForestsOfSize(shapes, n) ==
    IF n = 0 THEN {<<>>}
    ELSE UNION { { <<t>> \o rest : t \in TreesOfSize(shapes, k),
                                   rest \in ForestsOfSize(shapes, n - k) }
                 : k \in 1..n }
TreesOfSize(shapes, n) ==
    { s @@ [action |-> sub] : s \in shapes, sub \in ForestsOfSize(shapes, n - 1) }

\* Every shape in small documents, the core shapes in larger ones.
Forests ==
    UNION { ForestsOfSize(ActionShapes, n) : n \in 0..MaxRichActions }
    \cup UNION { ForestsOfSize(CoreShapes, n) : n \in 0..MaxActions }

NoRootFields == [id |-> None, title |-> None, description |-> None]
RichRootFields ==
    [id |-> Some(<<"plan", "&", "1">>), title |-> Some(<<"Care ", "<", "Pathway", ">">>),
     description |-> Some(D_Quote)]

PlanDefinition(root, action) ==
    [resourceType |-> Some(<<"PlanDefinition">>), id |-> root.id, title |-> root.title,
     description |-> root.description, action |-> action]

\* Documents without root fields over every forest (and with no action
\* list at all); documents with root fields over the forests of one tree.
ValidDocs ==
    { Some(PlanDefinition(NoRootFields, a)) : a \in {None} \cup { Some(f) : f \in Forests } }
    \cup { Some(PlanDefinition(RichRootFields, Some(f))) :
             f \in {<<>>} \cup { <<t>> : t \in UNION { TreesOfSize(ActionShapes, n) :
                                                        n \in 1..MaxRichActions } } }

InvalidDocs ==
    { None,
      Some([PlanDefinition(NoRootFields, Some(<<>>))
            EXCEPT !.resourceType = None]),
      Some([PlanDefinition(RichRootFields, Some(<<PlainAction @@ [action |-> <<>>]>>))
            EXCEPT !.resourceType = Some(<<"Patient">>)]) }

Docs == ValidDocs \cup InvalidDocs

HasActionsNoLengthTest(a) == a.action # None

\* planDefinition.action && planDefinition.action.length > 0
HasActions(a) == a.action # None /\ Len(a.action[1]) > 0

----------------------------------------------------------------------------
(* buildActionDocumentation *)

\* cond.expression?.expression and cond.expression?.language
ExprText(c) == IF c.expression = None THEN None ELSE c.expression[1].expression
ExprLanguage(c) == IF c.expression = None THEN None ELSE c.expression[1].language

OrText(opt, default) == IF Truthy(opt) THEN opt[1] ELSE default

TriggerDoc(t) ==
    Concat(Concat(OrText(t.type, <<"event">>), <<": ">>), OrText(t.name, <<"unnamed">>))

ConditionDoc(c, idx) ==
    Concat(Concat(<<"Condition " \o ToString(idx) \o ": ">>,
                  OrText(ExprText(c), <<"condition">>)),
           IF Truthy(ExprLanguage(c))
           THEN Concat(Concat(<<" (">>, ExprLanguage(c)[1]), <<")">>)
           ELSE <<>>)

buildActionDocumentation(action) ==
    LET docParts ==
          (IF Truthy(action.description)
           THEN <<Concat(<<"Description: ">>, action.description[1])>> ELSE <<>>)
          \o (IF Truthy(action.textEquivalent)
              THEN <<Concat(<<"Text: ">>, action.textEquivalent[1])>> ELSE <<>>)
          \o (IF Len(action.trigger) > 0
              THEN <<Concat(<<"Triggers: ">>,
                            Join([k \in 1..Len(action.trigger) |->
                                    TriggerDoc(action.trigger[k])], <<"; ">>))>>
              ELSE <<>>)
          \o [k \in 1..Len(action.condition) |-> ConditionDoc(action.condition[k], k)]
    IN Join(docParts, <<"\n">>)

----------------------------------------------------------------------------
(* XML serializer.  The XML text is a sequence of pieces in output order:  *)
(* a piece is markup the code writes literally, [lit |-> string], or the   *)
(* result of an escapeXml call placed in a template, [val |-> chunks].     *)

Lit(str) == <<[lit |-> str]>>
Val(chunks) == <<[val |-> chunks]>>
NewLine == Lit("\n")

\* lines.join('\n')
RECURSIVE JoinLines(_)
JoinLines(lines) ==
    IF lines = <<>> THEN <<>>
    ELSE IF Len(lines) = 1 THEN lines[1]
    ELSE lines[1] \o NewLine \o JoinLines(Tail(lines))

Field(e, name) == IF name \in DOMAIN e THEN e[name] ELSE <<>>

\* element.incoming.forEach / element.outgoing.forEach
RefLines(e, field, indent) ==
    [k \in 1..Len(Field(e, field)) |->
        Lit(indent \o "  <bpmn:" \o field \o ">")
        \o Val(escapeXml(IdText(Field(e, field)[k])))
        \o Lit("</bpmn:" \o field \o ">")]

DocumentationLines(e, indent) ==
    IF Field(e, "documentation") # <<>>
    THEN << Lit(indent \o "  <bpmn:documentation>")
            \o Val(escapeXml(e.documentation))
            \o Lit("</bpmn:documentation>") >>
    ELSE <<>>

\* The cases of generateElementXml for the five node kinds.
NodeXml(e, indent, tag, withIncoming, withOutgoing) ==
    << Lit(indent \o "<bpmn:" \o tag \o " id=\"") \o Val(escapeXml(IdText(e.id)))
       \o Lit("\" name=\"") \o Val(escapeXml(Field(e, "name"))) \o Lit("\">") >>
    \o DocumentationLines(e, indent)
    \o (IF withIncoming THEN RefLines(e, "incoming", indent) ELSE <<>>)
    \o (IF withOutgoing THEN RefLines(e, "outgoing", indent) ELSE <<>>)
    \o << Lit(indent \o "</bpmn:" \o tag \o ">") >>

\* The sequenceFlow case of generateElementXml; attrs.join(' ').
FlowXml(e, indent) ==
    LET attrs ==
          Lit("id=\"") \o Val(escapeXml(IdText(e.id)))
          \o Lit("\" sourceRef=\"") \o Val(escapeXml(IdText(e.sourceRef)))
          \o Lit("\" targetRef=\"") \o Val(escapeXml(IdText(e.targetRef))) \o Lit("\"")
          \o (IF Field(e, "name") # <<>>
              THEN Lit(" name=\"") \o Val(escapeXml(e.name)) \o Lit("\"")
              ELSE <<>>)
    IN IF Field(e, "conditionExpression") # <<>>
       THEN << Lit(indent \o "<bpmn:sequenceFlow ") \o attrs \o Lit(">"),
               Lit(indent \o "  <bpmn:conditionExpression xsi:type=\"bpmn:tFormalExpression\" xmlns:xsi=\"http://www.w3.org/2001/XMLSchema-instance\">")
               \o Val(escapeXml(e.conditionExpression))
               \o Lit("</bpmn:conditionExpression>"),
               Lit(indent \o "</bpmn:sequenceFlow>") >>
       ELSE << Lit(indent \o "<bpmn:sequenceFlow ") \o attrs \o Lit(" />") >>

generateElementXml(element, indent) ==
    JoinLines(
      CASE element.type = "startEvent" -> NodeXml(element, indent, "startEvent", FALSE, TRUE)
        [] element.type = "endEvent" -> NodeXml(element, indent, "endEvent", TRUE, FALSE)
        [] element.type = "intermediateEvent" ->
             NodeXml(element, indent, "intermediateCatchEvent", TRUE, TRUE)
        [] element.type = "task" -> NodeXml(element, indent, "task", TRUE, TRUE)
        [] element.type = "exclusiveGateway" ->
             NodeXml(element, indent, "exclusiveGateway", TRUE, TRUE)
        [] element.type = "sequenceFlow" -> FlowXml(element, indent)
        [] OTHER -> <<>>)

generateDiXmlShapesOnly(diElement, indent) ==
    JoinLines(
      IF "waypoints" \in DOMAIN diElement
      THEN <<>>
      ELSE << Lit(indent \o "<bpmndi:BPMNShape id=\"") \o Val(escapeXml(IdText(diElement.id)))
              \o Lit("\" bpmnElement=\"") \o Val(escapeXml(IdText(diElement.bpmnElement)))
              \o Lit("\">"),
              Lit(indent \o "  <dc:Bounds x=\"" \o ToString(diElement.x)
                  \o "\" y=\"" \o ToString(diElement.y)
                  \o "\" width=\"" \o ToString(diElement.width)
                  \o "\" height=\"" \o ToString(diElement.height) \o "\" />"),
              Lit(indent \o "</bpmndi:BPMNShape>") >>)

generateDiXml(diElement, indent) ==
    JoinLines(
      IF "waypoints" \in DOMAIN diElement
      THEN << Lit(indent \o "<bpmndi:BPMNEdge id=\"") \o Val(escapeXml(IdText(diElement.id)))
              \o Lit("\" bpmnElement=\"") \o Val(escapeXml(IdText(diElement.bpmnElement)))
              \o Lit("\">") >>
           \o [k \in 1..Len(diElement.waypoints) |->
                 Lit(indent \o "  <di:waypoint x=\"" \o ToString(diElement.waypoints[k].x)
                     \o "\" y=\"" \o ToString(diElement.waypoints[k].y) \o "\" />")]
           \o << Lit(indent \o "</bpmndi:BPMNEdge>") >>
      ELSE << Lit(indent \o "<bpmndi:BPMNShape id=\"") \o Val(escapeXml(IdText(diElement.id)))
              \o Lit("\" bpmnElement=\"") \o Val(escapeXml(IdText(diElement.bpmnElement)))
              \o Lit("\">"),
              Lit(indent \o "  <dc:Bounds x=\"" \o ToString(diElement.x)
                  \o "\" y=\"" \o ToString(diElement.y)
                  \o "\" width=\"" \o ToString(diElement.width)
                  \o "\" height=\"" \o ToString(diElement.height) \o "\" />"),
              Lit(indent \o "</bpmndi:BPMNShape>") >>)

generateBpmnXml(processId, processName, processDescription, elements, diElements) ==
    JoinLines(
      << Lit("<?xml version=\"1.0\" encoding=\"UTF-8\"?>"),
         Lit("<bpmn:definitions xmlns:bpmn=\"http://www.omg.org/spec/BPMN/20100524/MODEL\" xmlns:bpmndi=\"http://www.omg.org/spec/BPMN/20100524/DI\" xmlns:dc=\"http://www.omg.org/spec/DD/20100524/DC\" xmlns:di=\"http://www.omg.org/spec/DD/20100524/DI\" id=\"Definitions_1\" targetNamespace=\"http://bpmn.io/schema/bpmn\">"),
         Lit("  <bpmn:process id=\"") \o Val(escapeXml(processId))
         \o Lit("\" name=\"") \o Val(escapeXml(processName))
         \o Lit("\" isExecutable=\"true\">") >>
      \o (IF Truthy(processDescription)
          THEN << Lit("    <bpmn:documentation>") \o Val(escapeXml(processDescription[1]))
                  \o Lit("</bpmn:documentation>") >>
          ELSE <<>>)
      \o [k \in 1..Len(elements) |-> generateElementXml(elements[k], "    ")]
      \o << Lit("  </bpmn:process>"),
            Lit("  <bpmndi:BPMNDiagram id=\"BPMNDiagram_1\">"),
            Lit("    <bpmndi:BPMNPlane id=\"BPMNPlane_1\" bpmnElement=\"")
            \o Val(escapeXml(processId)) \o Lit("\">") >>
      \o [k \in 1..Len(diElements) |-> generateDiXml(diElements[k], "      ")]
      \o << Lit("    </bpmndi:BPMNPlane>"),
            Lit("  </bpmndi:BPMNDiagram>"),
            Lit("</bpmn:definitions>") >>)

----------------------------------------------------------------------------
(* processActions: the expressions of the loop body *)

actionNameZeroBased(action, i) ==
    OrText(Or(action.title, action.description), <<"Action " \o ToString(i)>>)

\* action.title || action.description || `Action ${i + 1}`
actionName(action, i) ==
    OrText(Or(action.title, action.description), <<"Action " \o ToString(i + 1)>>)

triggerNamesTypeFirst(action) ==
    LET named == SelectSeq([k \in 1..Len(action.trigger) |->
                              Or(action.trigger[k].type, action.trigger[k].name)],
                           Truthy)
    IN Join([k \in 1..Len(named) |-> named[k][1]], <<", ">>)

\* action.trigger.map(t => t.name || t.type).filter(Boolean).join(', ')
triggerNames(action) ==
    LET named == SelectSeq([k \in 1..Len(action.trigger) |->
                              Or(action.trigger[k].name, action.trigger[k].type)],
                           Truthy)
    IN Join([k \in 1..Len(named) |-> named[k][1]], <<", ">>)

triggerEventName(action) == Concat(<<"Trigger: ">>, triggerNames(action))

conditionTextLast(action) ==
    OrText(ExprText(action.condition[Len(action.condition)]), <<"Check Condition">>)

\* condition.expression?.expression || 'Check Condition', condition = action.condition[0]
conditionText(action) ==
    OrText(ExprText(action.condition[1]), <<"Check Condition">>)

gatewayName(action) == Concat(<<"Decision: ">>, conditionText(action))

----------------------------------------------------------------------------
(* Control state of convertPlanDefinitionToBpmn and processActions *)

\* The builder of the running conversion: the instance the local `factory`
\* refers to (an index into factories; 0 before line 67 has run).
F == factories[top.factory]

SetFLast(g) == factories' = [factories EXCEPT ![Len(factories)] = g]

\* A method call on `factory` changes that instance and no other.
SetF(g) == factories' = [factories EXCEPT ![top.factory] = g]

NoTop == [factory |-> 0, startEventId |-> "", lastElementId |-> "", endEventId |-> ""]

\* Where the loop body of processActions starts for actions[i] (i is 0-based).
AfterTrigger(action) == IF Len(action.condition) > 0 THEN "gateway" ELSE "task"

EntryPcFlowFirst(actions, i) ==
    IF i >= Len(actions) THEN "return"
    ELSE IF Len(actions[i + 1].trigger) > 0 THEN "triggerFlow"
    ELSE AfterTrigger(actions[i + 1])

EntryPc(actions, i) ==
    IF i >= Len(actions) THEN "return"
    ELSE IF Len(actions[i + 1].trigger) > 0 THEN "triggerEvent"
    ELSE AfterTrigger(actions[i + 1])

\* The activation record of processActions(factory, actions, previousElementId).
Frame(actions, previousElementId) ==
    [actions |-> actions, i |-> 0, lastElementId |-> previousElementId,
     pc |-> EntryPc(actions, 0), eventId |-> "", gatewayId |-> "", taskId |-> ""]

Top == Last(stack)
Action == Top.actions[Top.i + 1]
SetTop(fr) == stack' = [stack EXCEPT ![Len(stack)] = fr]

\* End of the loop body: i++ and the next iteration's first statement.
NextIteration(fr) ==
    [fr EXCEPT !.i = @ + 1, !.pc = EntryPc(fr.actions, fr.i + 1),
               !.eventId = "", !.gatewayId = "", !.taskId = ""]

IsValidRootLoose(d) == d # None /\ d[1].resourceType # Some(<<"Patient">>)

\* !( !planDefinition || planDefinition.resourceType !== 'PlanDefinition' )
IsValidRoot(d) == d # None /\ d[1].resourceType = Some(<<"PlanDefinition">>)

----------------------------------------------------------------------------
(* convertPlanDefinitionToBpmn *)

\* Lines 63-65 and the catch block 90-93: the invalid-root error.
Validate ==
    /\ pc = "validate"
    /\ IF IsValidRoot(doc)
       THEN /\ pc' = "construct"
            /\ UNCHANGED <<outputs, console>>
       ELSE /\ pc' = "failed"
            /\ console' = Append(console, "error")
            /\ outputs' = Append(outputs, [threw |-> TRUE])
    /\ UNCHANGED <<parked, doc, run, factories, top, stack>>

\* Line 67: const factory = new BpmnFactory()
Construct ==
    /\ pc = "construct"
    /\ factories' = Append(factories, NewFactory(factories))
    /\ top' = [top EXCEPT !.factory = Len(factories) + 1]
    /\ pc' = "start"
    /\ UNCHANGED <<parked, doc, run, stack, outputs, console>>

\* Lines 73-74
CreateStart ==
    /\ pc = "start"
    /\ LET r == createStartEvent(F) IN
         /\ SetF(r.f)
         /\ top' = [top EXCEPT !.startEventId = r.id, !.lastElementId = r.id]
    /\ pc' = "actions"
    /\ UNCHANGED <<parked, doc, run, stack, outputs, console>>

\* Lines 77-78: the call of processActions
CallProcessActions ==
    /\ pc = "actions"
    /\ HasActions(doc[1])
    /\ stack' = <<Frame(doc[1].action[1], top.lastElementId)>>
    /\ pc' = "walk"
    /\ UNCHANGED <<parked, doc, run, factories, top, outputs, console>>

\* Lines 79-81
WarnNoActions ==
    /\ pc = "actions"
    /\ ~HasActions(doc[1])
    /\ console' = Append(console, "warn")
    /\ pc' = "end"
    /\ UNCHANGED <<parked, doc, run, factories, top, stack, outputs>>

\* Lines 116-120
WalkTriggerEvent ==
    /\ pc = "walk" /\ Top.pc = "triggerEvent"
    /\ LET r == createIntermediateEvent(F, triggerEventName(Action), "temp_incoming",
                                        buildActionDocumentation(Action)) IN
         /\ SetF(r.f)
         /\ SetTop([Top EXCEPT !.eventId = r.id, !.pc = "triggerFlow"])
    /\ UNCHANGED <<parked, doc, run, pc, top, outputs, console>>

WalkTriggerFlowNoAdvance ==
    /\ pc = "walk" /\ Top.pc = "triggerFlow"
    /\ SetF(createSequenceFlow(F, Top.lastElementId, Top.eventId, None, None).f)
    /\ SetTop([Top EXCEPT !.pc = AfterTrigger(Action)])
    /\ UNCHANGED <<parked, doc, run, pc, top, outputs, console>>

\* Lines 121-122
WalkTriggerFlow ==
    /\ pc = "walk" /\ Top.pc = "triggerFlow"
    /\ SetF(createSequenceFlow(F, Top.lastElementId, Top.eventId, None, None).f)
    /\ SetTop([Top EXCEPT !.lastElementId = Top.eventId, !.pc = AfterTrigger(Action)])
    /\ UNCHANGED <<parked, doc, run, pc, top, outputs, console>>

\* Lines 127-134
WalkGateway ==
    /\ pc = "walk" /\ Top.pc = "gateway"
    /\ LET r == createExclusiveGateway(F, gatewayName(Action), "temp_incoming") IN
         /\ SetF(r.f)
         /\ SetTop([Top EXCEPT !.gatewayId = r.id, !.pc = "gatewayFlow"])
    /\ UNCHANGED <<parked, doc, run, pc, top, outputs, console>>

\* Line 137
WalkGatewayFlow ==
    /\ pc = "walk" /\ Top.pc = "gatewayFlow"
    /\ SetF(createSequenceFlow(F, Top.lastElementId, Top.gatewayId, None, None).f)
    /\ SetTop([Top EXCEPT !.pc = "condTask"])
    /\ UNCHANGED <<parked, doc, run, pc, top, outputs, console>>

\* Line 140
WalkCondTask ==
    /\ pc = "walk" /\ Top.pc = "condTask"
    /\ LET r == createTask(F, actionName(Action, Top.i), "temp_incoming",
                           buildActionDocumentation(Action)) IN
         /\ SetF(r.f)
         /\ SetTop([Top EXCEPT !.taskId = r.id, !.pc = "yesFlow"])
    /\ UNCHANGED <<parked, doc, run, pc, top, outputs, console>>

\* Line 158
WalkTask ==
    /\ pc = "walk" /\ Top.pc = "task"
    /\ LET r == createTask(F, actionName(Action, Top.i), "temp_incoming",
                           buildActionDocumentation(Action)) IN
         /\ SetF(r.f)
         /\ SetTop([Top EXCEPT !.taskId = r.id, !.pc = "taskFlow"])
    /\ UNCHANGED <<parked, doc, run, pc, top, outputs, console>>

AfterTaskFlowNoNesting ==
    SetTop(NextIteration([Top EXCEPT !.lastElementId = Top.taskId]))

\* After the flow into the task: lastElementId = taskId, then either the
\* recursive call for the sub-actions or the end of the loop body.
AfterTaskFlow ==
    LET fr == [Top EXCEPT !.lastElementId = Top.taskId] IN
    IF Len(Action.action) > 0
    THEN stack' = [stack EXCEPT ![Len(stack)] = [fr EXCEPT !.pc = "nested"]]
                  \o <<Frame(Action.action, fr.lastElementId)>>
    ELSE SetTop(NextIteration(fr))

\* Lines 143-155
WalkYesFlow ==
    /\ pc = "walk" /\ Top.pc = "yesFlow"
    /\ SetF(createSequenceFlow(F, Top.gatewayId, Top.taskId,
                               ExprText(Action.condition[1]), Some(<<"Yes">>)).f)
    /\ AfterTaskFlow
    /\ UNCHANGED <<parked, doc, run, pc, top, outputs, console>>

WalkTaskFlowFromStart ==
    /\ pc = "walk" /\ Top.pc = "taskFlow"
    /\ SetF(createSequenceFlow(F, top.startEventId, Top.taskId, None, None).f)
    /\ AfterTaskFlow
    /\ UNCHANGED <<parked, doc, run, pc, top, outputs, console>>

\* Lines 161-168
WalkTaskFlow ==
    /\ pc = "walk" /\ Top.pc = "taskFlow"
    /\ SetF(createSequenceFlow(F, Top.lastElementId, Top.taskId, None, None).f)
    /\ AfterTaskFlow
    /\ UNCHANGED <<parked, doc, run, pc, top, outputs, console>>

WalkReturnKeepFrontier ==
    /\ pc = "walk" /\ Top.pc = "return"
    /\ IF Len(stack) = 1
       THEN /\ stack' = <<>>
            /\ pc' = "end"
            /\ UNCHANGED top
       ELSE /\ stack' = [Front(stack) EXCEPT ![Len(stack) - 1] = NextIteration(@)]
            /\ UNCHANGED <<top, pc>>
    /\ UNCHANGED <<parked, doc, run, factories, outputs, console>>

\* Line 172: return lastElementId, assigned by the caller (lines 78, 154, 167)
WalkReturn ==
    /\ pc = "walk" /\ Top.pc = "return"
    /\ IF Len(stack) = 1
       THEN /\ stack' = <<>>
            /\ top' = [top EXCEPT !.lastElementId = Top.lastElementId]
            /\ pc' = "end"
       ELSE /\ stack' = [Front(stack) EXCEPT ![Len(stack) - 1] =
                           NextIteration([@ EXCEPT !.lastElementId = Top.lastElementId])]
            /\ UNCHANGED <<top, pc>>
    /\ UNCHANGED <<parked, doc, run, factories, outputs, console>>

\* Line 84
CreateEnd ==
    /\ pc = "end"
    /\ LET r == createEndEvent(F, "temp_incoming") IN
         /\ SetF(r.f)
         /\ top' = [top EXCEPT !.endEventId = r.id]
    /\ pc' = "endFlow"
    /\ UNCHANGED <<parked, doc, run, stack, outputs, console>>

connectEndReversed(f, lastElementId, endEventId) ==
    createSequenceFlow(f, endEventId, lastElementId, None, None)

\* factory.createSequenceFlow(lastElementId, endEventId)
connectEnd(f, lastElementId, endEventId) ==
    createSequenceFlow(f, lastElementId, endEventId, None, None)

\* Line 85
EndFlow ==
    /\ pc = "endFlow"
    /\ SetF(connectEnd(F, top.lastElementId, top.endEventId).f)
    /\ pc' = "serialize"
    /\ UNCHANGED <<parked, doc, run, top, stack, outputs, console>>

\* planDefinition.id || 'Process_1' and planDefinition.title || 'PlanDefinition Process'
processId(d) == OrText(d.id, <<"Process_1">>)
processName(d) == OrText(d.title, <<"PlanDefinition Process">>)

\* Lines 68-70 and 88-89
Serialize ==
    /\ pc = "serialize"
    /\ outputs' = Append(outputs,
         [threw |-> FALSE,
          xml |-> generateBpmnXml(processId(doc[1]), processName(doc[1]),
                                  doc[1].description, F.elements, F.diElements)])
    /\ pc' = "done"
    /\ UNCHANGED <<parked, doc, run, factories, top, stack, console>>

\* The caller converts the same document again (the editor's effect re-runs).
ConvertAgain ==
    /\ pc \in {"done", "failed"}
    /\ run < MaxRuns
    /\ run' = run + 1
    /\ pc' = "validate"
    /\ top' = NoTop
    /\ UNCHANGED <<parked, doc, factories, stack, outputs, console>>

----------------------------------------------------------------------------
(* One call of convertPlanDefinitionToBpmn run from start to end without   *)
(* interruption, as a function of its argument.                            *)

\* The loop of processActions from index i (0-based) on; the result is the
\* builder after the loop and the returned lastElementId.
RECURSIVE processActionsFrom(_, _, _, _)
processActionsFrom(f, actions, i, lastElementId) ==
    IF i >= Len(actions) THEN Ret(f, lastElementId)
    ELSE
      LET action == actions[i + 1]
          documentation == buildActionDocumentation(action)
          afterTrigger ==
            IF Len(action.trigger) > 0
            THEN LET ev == createIntermediateEvent(f, triggerEventName(action),
                                                   "temp_incoming", documentation)
                 IN Ret(createSequenceFlow(ev.f, lastElementId, ev.id, None, None).f, ev.id)
            ELSE Ret(f, lastElementId)
          afterTask ==
            IF Len(action.condition) > 0
            THEN LET gw == createExclusiveGateway(afterTrigger.f, gatewayName(action),
                                                  "temp_incoming")
                     toGw == createSequenceFlow(gw.f, afterTrigger.id, gw.id, None, None)
                     task == createTask(toGw.f, actionName(action, i), "temp_incoming",
                                        documentation)
                 IN Ret(createSequenceFlow(task.f, gw.id, task.id,
                                           ExprText(action.condition[1]),
                                           Some(<<"Yes">>)).f,
                        task.id)
            ELSE LET task == createTask(afterTrigger.f, actionName(action, i),
                                        "temp_incoming", documentation)
                 IN Ret(createSequenceFlow(task.f, afterTrigger.id, task.id, None, None).f,
                        task.id)
          afterNested ==
            IF Len(action.action) > 0
            THEN processActionsFrom(afterTask.f, action.action, 0, afterTask.id)
            ELSE afterTask
      IN processActionsFrom(afterNested.f, actions, i + 1, afterNested.id)

processActions(factory, actions, previousElementId) ==
    processActionsFrom(factory, actions, 0, previousElementId)

\* The builder and the XML of a call on a valid document d.
convertPlanDefinitionToBpmn(d) ==
    LET start == createStartEvent(NewFactory(<<>>))
        walked == IF HasActions(d) THEN processActions(start.f, d.action[1], start.id)
                  ELSE start
        end == createEndEvent(walked.f, "temp_incoming")
        factory == connectEnd(end.f, walked.id, end.id).f
    IN [factory |-> factory,
        xml |-> generateBpmnXml(processId(d), processName(d), d.description,
                                factory.elements, factory.diElements)]

----------------------------------------------------------------------------
(* Two conversions in progress at once: one runs, the other is suspended   *)
(* between two of its steps.                                               *)

Conversion(d) == [doc |-> d, pc |-> "validate", top |-> NoTop, stack |-> <<>>]

\* The running conversion is suspended and the suspended one resumes.
Switch ==
    /\ parked # None
    /\ parked' = Some([doc |-> doc, pc |-> pc, top |-> top, stack |-> stack])
    /\ doc' = parked[1].doc
    /\ pc' = parked[1].pc
    /\ top' = parked[1].top
    /\ stack' = parked[1].stack
    /\ UNCHANGED <<run, factories, outputs, console>>

\* The documents of the first conversion: the core shapes in small forests.
PairDocs ==
    { Some(PlanDefinition(NoRootFields, Some(f))) :
        f \in UNION { ForestsOfSize(CoreShapes, n) : n \in 0..MaxRichActions } }

\* The document of the second: a triggered, conditioned action with a
\* sub-action.
PairPartners ==
    { Some(PlanDefinition(RichRootFields,
             Some(<<TriggeredConditionedAction
                    @@ [action |-> <<PlainAction @@ [action |-> <<>>]>>]>>))) }

----------------------------------------------------------------------------
(* A caller that drives one BpmnFactory through its public methods *)

IsNode(e) == e.type # "sequenceFlow"
IsFlow(e) == e.type = "sequenceFlow"

Elements(f) == {f.elements[k] : k \in 1..Len(f.elements)}
NodeIds(f) == {e.id : e \in {n \in Elements(f) : IsNode(n)}}
FlowIds(f) == {e.id : e \in {n \in Elements(f) : IsFlow(n)}}

\* Values a caller passes as incomingFlowId: the placeholder the walker
\* uses, or the id of a flow it has created.
IncomingArgs(f) == {"temp_incoming"} \cup FlowIds(f)

ApiNames == {T_Review}

ApiCall(r) ==
    /\ SetF(r.f)
    /\ UNCHANGED <<parked, doc, run, pc, top, stack, outputs, console>>

\* The caller makes at most MaxApiOps calls.
ApiReady == pc = "api" /\ Len(F.elements) < MaxApiOps

ApiCreateStartEvent ==
    /\ ApiReady
    /\ ApiCall(createStartEvent(F))

ApiCreateEndEvent ==
    /\ ApiReady
    /\ \E inc \in IncomingArgs(F) : ApiCall(createEndEvent(F, inc))

ApiCreateTask ==
    /\ ApiReady
    /\ \E name \in ApiNames, inc \in IncomingArgs(F) :
          ApiCall(createTask(F, name, inc, <<>>))

ApiCreateExclusiveGateway ==
    /\ ApiReady
    /\ \E name \in ApiNames, inc \in IncomingArgs(F) :
          ApiCall(createExclusiveGateway(F, name, inc))

ApiCreateIntermediateEvent ==
    /\ ApiReady
    /\ \E name \in ApiNames, inc \in IncomingArgs(F) :
          ApiCall(createIntermediateEvent(F, name, inc, <<>>))

\* The optional arguments a caller passes for a flow out of the source: a
\* condition and a name only on a flow that leaves a gateway.
FlowLabels(f, src) ==
    {[cond |-> None, name |-> None]}
    \cup (IF \E n \in Elements(f) : n.id = src /\ n.type = "exclusiveGateway"
          THEN {[cond |-> Some(E_Adult), name |-> Some(<<"Yes">>)]}
          ELSE {})

\* createSequenceFlow between two identifiers the factory has issued for nodes.
ApiCreateSequenceFlow ==
    /\ ApiReady
    /\ \E src \in NodeIds(F), tgt \in NodeIds(F) :
          \E labelled \in FlowLabels(F, src) :
            ApiCall(createSequenceFlow(F, src, tgt, labelled.cond, labelled.name))

\* An identifier no factory ever issues.
UnknownIds == {"Node_0"}

\* createSequenceFlow where the source, the target or both were never issued.
ApiCreateSequenceFlowUnknown ==
    /\ ApiReady
    /\ \E src \in NodeIds(F) \cup UnknownIds, tgt \in NodeIds(F) \cup UnknownIds :
          /\ src \in UnknownIds \/ tgt \in UnknownIds
          /\ ApiCall(createSequenceFlow(F, src, tgt, None, None))

----------------------------------------------------------------------------
(* Specification *)

InitConvert ==
    /\ doc \in Docs
    /\ pc = "validate"
    /\ factories = <<>>
    /\ top = NoTop

InitApi ==
    /\ doc = None
    /\ pc = "api"
    /\ factories = <<NewFactory(<<>>)>>
    /\ top = [NoTop EXCEPT !.factory = 1]

Init ==
    /\ InitConvert \/ InitApi
    /\ parked = None
    /\ run = 1
    /\ stack = <<>>
    /\ outputs = <<>>
    /\ console = <<>>

Next ==
    \/ Validate
    \/ Construct
    \/ CreateStart
    \/ CallProcessActions
    \/ WarnNoActions
    \/ WalkTriggerEvent
    \/ WalkTriggerFlow
    \/ WalkGateway
    \/ WalkGatewayFlow
    \/ WalkCondTask
    \/ WalkYesFlow
    \/ WalkTask
    \/ WalkTaskFlow
    \/ WalkReturn
    \/ CreateEnd
    \/ EndFlow
    \/ Serialize
    \/ ConvertAgain
    \/ ApiCreateStartEvent
    \/ ApiCreateEndEvent
    \/ ApiCreateTask
    \/ ApiCreateExclusiveGateway
    \/ ApiCreateIntermediateEvent
    \/ ApiCreateSequenceFlow
    \/ ApiCreateSequenceFlowUnknown

Spec == Init /\ [][Next]_vars

\* Two conversions, each with its own builder, their steps interleaved.
InitPair ==
    /\ doc \in PairDocs
    /\ parked \in { Some(Conversion(d)) : d \in PairPartners }
    /\ pc = "validate"
    /\ factories = <<>>
    /\ top = NoTop
    /\ run = 1
    /\ stack = <<>>
    /\ outputs = <<>>
    /\ console = <<>>

NextPair ==
    \/ Validate
    \/ Construct
    \/ CreateStart
    \/ CallProcessActions
    \/ WarnNoActions
    \/ WalkTriggerEvent
    \/ WalkTriggerFlow
    \/ WalkGateway
    \/ WalkGatewayFlow
    \/ WalkCondTask
    \/ WalkYesFlow
    \/ WalkTask
    \/ WalkTaskFlow
    \/ WalkReturn
    \/ CreateEnd
    \/ EndFlow
    \/ Serialize
    \/ Switch

SpecPair == InitPair /\ [][NextPair]_vars

----------------------------------------------------------------------------
(* Views of the graph used by the properties *)

Range(list) == {list[k] : k \in 1..Len(list)}
Count(list, v) == Cardinality({k \in 1..Len(list) : list[k] = v})

Nodes(f) == {e \in Elements(f) : IsNode(e)}
Flows(f) == {e \in Elements(f) : IsFlow(e)}
OfType(f, type) == SelectSeq(f.elements, LAMBDA e : e.type = type)

\* The nodes that list the flow id in the given field.
Listing(f, field, id) == {n \in Nodes(f) : id \in Range(Field(n, field))}

Converting == pc # "api" /\ top.factory # 0
Finished == pc = "done"

----------------------------------------------------------------------------
(* C1 *)

Linked(f, flow, field, nodeId) ==
    /\ \A n \in Listing(f, field, flow.id) : n.id = nodeId
    /\ \E n \in Nodes(f) : n.id = nodeId /\ Count(Field(n, field), flow.id) = 1

\* Every createSequenceFlow call so far was made on identifiers of nodes.
OnlyIssuedIds(f) ==
    \A flow \in Flows(f) : flow.sourceRef \in NodeIds(f) /\ flow.targetRef \in NodeIds(f)

\* C1: after a conversion and after any sequence of factory calls on issued
\* ids, every flow's id is in the outgoing list of exactly one node, its
\* sourceRef node, exactly once, and in the incoming list of exactly one
\* node, its targetRef node, exactly once.
C1_BidirectionalLinkage ==
    \A k \in 1..Len(factories) :
      OnlyIssuedIds(factories[k]) =>
      \A flow \in Flows(factories[k]) :
        /\ Linked(factories[k], flow, "outgoing", flow.sourceRef)
        /\ Linked(factories[k], flow, "incoming", flow.targetRef)

----------------------------------------------------------------------------
(* C2 *)

\* C2: during and after a conversion, every entry of a node's incoming list
\* is the id of an existing flow whose targetRef is that node, and every
\* entry of its outgoing list is the id of an existing flow whose sourceRef
\* is that node.
C2_OnlyEndpointRefs ==
    Converting =>
      \A n \in Nodes(F) :
        /\ \A r \in Range(Field(n, "incoming")) :
              \E flow \in Flows(F) : flow.id = r /\ flow.targetRef = n.id
        /\ \A r \in Range(Field(n, "outgoing")) :
              \E flow \in Flows(F) : flow.id = r /\ flow.sourceRef = n.id

----------------------------------------------------------------------------
(* C3 *)

\* C3: in the finished graph of a valid document the StartEvent's incoming
\* list is empty and the EndEvent's outgoing list is empty: no flow targets
\* the StartEvent and no flow leaves the EndEvent.
C3_EndpointInvariant ==
    Finished =>
      /\ \A n \in Nodes(F) :
           /\ n.type = "startEvent" =>
                /\ Field(n, "incoming") = <<>>
                /\ \A flow \in Flows(F) : flow.targetRef # n.id
           /\ n.type = "endEvent" =>
                /\ Field(n, "outgoing") = <<>>
                /\ \A flow \in Flows(F) : flow.sourceRef # n.id
      /\ \E n \in Nodes(F) : n.type = "startEvent"
      /\ \E n \in Nodes(F) : n.type = "endEvent"

\* A finished conversion of a document with nested actions.
C3_Witness ==
    /\ Finished
    /\ Len(OfType(F, "task")) >= 2
    /\ \E flow \in Flows(F) : flow.sourceRef = top.startEventId
    /\ \E flow \in Flows(F) : flow.targetRef = top.endEventId

----------------------------------------------------------------------------
(* C4 *)

InvalidRoot ==
    \/ doc = None
    \/ doc[1].resourceType = None
    \/ doc[1].resourceType # Some(<<"PlanDefinition">>)

\* C4: a call with a null document or one whose resourceType is missing or
\* not "PlanDefinition" fails with the invalid-root error before a builder
\* is constructed or a node or flow is created, and returns no XML.
C4_InvalidRootRejected ==
    (pc # "api" /\ InvalidRoot) =>
      /\ factories = <<>>
      /\ pc \in {"validate", "failed"}
      /\ \A k \in 1..Len(outputs) : outputs[k] = [threw |-> TRUE]
      /\ pc = "failed" => Len(outputs) = run /\ Len(console) = run
      /\ \A k \in 1..Len(console) : console[k] = "error"

\* The call on { resourceType: "Patient", ... } has failed.
C4_Witness ==
    /\ pc = "failed"
    /\ doc # None
    /\ doc[1].resourceType = Some(<<"Patient">>)
    /\ outputs # <<>>

----------------------------------------------------------------------------
(* C5 *)

NoActionList == doc # None /\ (doc[1].action = None \/ doc[1].action[1] = <<>>)

\* C5: for a PlanDefinition whose action list is empty or absent the
\* conversion succeeds with a warning, and the graph has exactly one
\* StartEvent, one EndEvent, no other node, and exactly one flow, from the
\* StartEvent to the EndEvent.
C5_EmptyActions ==
    (Finished /\ NoActionList) =>
      /\ Len(F.elements) = 3
      /\ Len(OfType(F, "startEvent")) = 1
      /\ Len(OfType(F, "endEvent")) = 1
      /\ Len(OfType(F, "sequenceFlow")) = 1
      /\ OfType(F, "sequenceFlow")[1].sourceRef = OfType(F, "startEvent")[1].id
      /\ OfType(F, "sequenceFlow")[1].targetRef = OfType(F, "endEvent")[1].id
      /\ Len(outputs) = run
      /\ ~outputs[run].threw
      /\ Len(console) = run
      /\ \A k \in 1..run : console[k] = "warn"

\* Finished conversions of { action: [] } and of a document without action.
C5_Witness ==
    /\ Finished
    /\ NoActionList
    /\ doc[1].action = Some(<<>>)
    /\ run = MaxRuns

----------------------------------------------------------------------------
(* The actions of the document in the order the walker visits them *)

\* Depth-first, parents before their sub-actions; position is the action's
\* 1-based place in its own sibling list.
RECURSIVE PreorderFrom(_, _)
PreorderFrom(forest, k) ==
    IF k > Len(forest) THEN <<>>
    ELSE <<[action |-> forest[k], position |-> k]>>
         \o PreorderFrom(forest[k].action, 1)
         \o PreorderFrom(forest, k + 1)

DocActions ==
    IF doc = None \/ doc[1].action = None THEN <<>>
    ELSE PreorderFrom(doc[1].action[1], 1)

Conditioned == SelectSeq(DocActions, LAMBDA v : Len(v.action.condition) > 0)

\* The expression text of the action's first condition, as an optional value.
FirstExpression(a) ==
    IF a.condition[1].expression = None THEN None
    ELSE a.condition[1].expression[1].expression

FlowById(f, id) == CHOOSE flow \in Flows(f) : flow.id = id
NodeById(f, id) == CHOOSE n \in Nodes(f) : n.id = id

----------------------------------------------------------------------------
(* C6 *)

\* The j-th gateway in creation order belongs to the j-th conditioned action
\* in visiting order: it is named gwName(action), has a single outgoing flow,
\* named "Yes", that carries the first condition's expression text and leads
\* to a Task carrying the action's documentation.
GatewaysMatch(gwName(_)) ==
    LET gws == OfType(F, "exclusiveGateway") IN
    /\ Len(gws) = Len(Conditioned)
    /\ \A j \in 1..Len(gws) :
         LET g == gws[j]
             a == Conditioned[j].action
         IN /\ g.name = gwName(a)
            /\ Len(g.outgoing) = 1
            /\ LET yes == FlowById(F, g.outgoing[1])
                   task == NodeById(F, yes.targetRef)
               IN /\ yes.sourceRef = g.id
                  /\ Field(yes, "name") = <<"Yes">>
                  /\ Field(yes, "conditionExpression") = OrText(FirstExpression(a), <<>>)
                  /\ task.type = "task"
                  /\ task.documentation = buildActionDocumentation(a)
                  /\ {flow \in Flows(F) : flow.targetRef = task.id} = {yes}

\* While the walker is between the calls for one conditioned action: the
\* gateway was connected from the frontier the walker held at that moment.
GatewayFromFrontier ==
    (pc = "walk" /\ Top.pc = "condTask") =>
      LET flow == Last(F.elements) IN
      /\ IsFlow(flow)
      /\ flow.sourceRef = Top.lastElementId
      /\ flow.targetRef = Top.gatewayId
      /\ NodeById(F, Top.gatewayId).type = "exclusiveGateway"
      /\ {fl \in Flows(F) : fl.targetRef = Top.gatewayId} = {flow}

ClaimedGatewayName(a) ==
    IF FirstExpression(a) = None THEN <<"Decision: Check Condition">>
    ELSE Concat(<<"Decision: ">>, FirstExpression(a)[1])

AmendedGatewayName(a) ==
    IF FirstExpression(a) = None \/ FirstExpression(a)[1] = <<>>
    THEN <<"Decision: Check Condition">>
    ELSE Concat(<<"Decision: ">>, FirstExpression(a)[1])

\* C6 as claimed: for every action with at least one condition there is
\* exactly one ExclusiveGateway, named "Decision: " followed by the first
\* condition's expression text, or "Decision: Check Condition" when that text
\* is absent; it is connected from the current frontier and the action's Task
\* is its direct successor through a single flow named "Yes" whose
\* condition-expression is the first condition's expression text; further
\* conditions add nothing.
C6_AsClaimed ==
    /\ GatewayFromFrontier
    /\ Finished => GatewaysMatch(ClaimedGatewayName)

\* C6 as amended: the same, with the gateway named "Decision: Check Condition"
\* when the first condition's expression text is absent or the empty string.
C6_ConditionGateway ==
    /\ GatewayFromFrontier
    /\ Finished => GatewaysMatch(AmendedGatewayName)

\* A finished conversion with a one-condition action "patient.age >= 18" and
\* an action whose two conditions start with one that has no expression.
C6_Witness ==
    /\ Finished
    /\ \E g \in Nodes(F) : g.name = <<"Decision: patient.age ", ">", "= 18">>
    /\ \E flow \in Flows(F) :
          Field(flow, "name") = <<"Yes">> /\ Field(flow, "conditionExpression") = E_Adult
    /\ \E j \in 1..Len(Conditioned) :
          /\ Len(Conditioned[j].action.condition) = 2
          /\ FirstExpression(Conditioned[j].action) = None

----------------------------------------------------------------------------
(* C7 *)

\* C7: converting the same document again with a fresh builder gives the
\* same node ids, flow ids, layout and XML as every earlier conversion of
\* it; ids restart at StartEvent_1 and Flow_1 and x restarts at 100.
C7_Idempotent ==
    (Finished /\ ~InvalidRoot) =>
      /\ Len(factories) = run /\ Len(outputs) = run
      /\ \A r \in 1..run :
           /\ factories[r] = factories[run]
           /\ outputs[r] = outputs[run]
      /\ F.elements[1].id = "StartEvent_1"
      /\ F.diElements[1].x = InitialX
      /\ OfType(F, "sequenceFlow")[1].id = "Flow_1"

\* The second conversion of a document with a trigger and a condition is done.
C7_Witness ==
    /\ Finished
    /\ run >= 2
    /\ OfType(F, "exclusiveGateway") # <<>>
    /\ OfType(F, "intermediateEvent") # <<>>

----------------------------------------------------------------------------
(* C8 *)

\* C8: in every builder all node identifiers are pairwise distinct, all flow
\* identifiers are pairwise distinct and no flow identifier is a node
\* identifier, so no creation call returns an identifier issued before.
C8_UniqueIds ==
    \A r \in 1..Len(factories) :
      LET es == factories[r].elements IN
      /\ \A i, j \in 1..Len(es) : i # j => es[i].id # es[j].id
      /\ NodeIds(factories[r]) \cap FlowIds(factories[r]) = {}

\* A caller has created two nodes of one kind, a node of another kind and a flow.
C8_Witness ==
    /\ pc = "api"
    /\ Len(OfType(F, "task")) = 2
    /\ Len(OfType(F, "exclusiveGateway")) = 1
    /\ Len(OfType(F, "sequenceFlow")) = 1

----------------------------------------------------------------------------
(* C9 *)

Entity(ch) ==
    CASE ch = "&" -> "amp;"
      [] ch = "<" -> "lt;"
      [] ch = ">" -> "gt;"
      [] ch = "\"" -> "quot;"
      [] ch = "'" -> "apos;"

\* The text with each reserved character replaced by its entity, once.
RECURSIVE Escaped(_)
Escaped(t) ==
    IF t = <<>> THEN <<>>
    ELSE (IF t[1] \in Reserved THEN <<"&", Entity(t[1])>> ELSE <<t[1]>>) \o Escaped(Tail(t))

\* No reserved character other than the & that starts an entity.
WellEscaped(v) ==
    \A k \in 1..Len(v) :
      v[k] \in Reserved =>
        /\ v[k] = "&"
        /\ k < Len(v)
        /\ v[k + 1] \in {Entity(ch) : ch \in Reserved}

\* The non-empty user-supplied strings the serializer writes.
EmittedStrings ==
    ( {processId(doc[1]), processName(doc[1])}
      \cup (IF doc[1].description # None THEN {doc[1].description[1]} ELSE {})
      \cup {Field(e, "name") : e \in Elements(F)}
      \cup {Field(e, "documentation") : e \in Elements(F)}
      \cup {Field(e, "conditionExpression") : e \in Elements(F)} )
    \ {<<>>}

Values(xml) == {xml[k].val : k \in {i \in 1..Len(xml) : "val" \in DOMAIN xml[i]}}

\* C9: every value the serializer writes from a user-supplied string has
\* each of & < > " ' replaced by its entity, & first, so that no entity is
\* escaped again; the title A & B <test> is written A &amp; B &lt;test&gt;.
C9_Escaping ==
    Finished =>
      LET xml == outputs[run].xml IN
      /\ \A v \in Values(xml) : WellEscaped(v)
      /\ \A u \in EmittedStrings : Escaped(u) \in Values(xml)
      /\ (\E e \in Elements(F) : Field(e, "name") = T_AB) =>
            <<"A ", "&", "amp;", " B ", "&", "lt;", "test", "&", "gt;">> \in Values(xml)

\* A finished conversion that wrote a task titled A & B <test>, a condition
\* expression with > and a process description with quotes and an entity.
C9_Witness ==
    /\ Finished
    /\ \E e \in Elements(F) : Field(e, "name") = T_AB
    /\ \E e \in Elements(F) : Field(e, "conditionExpression") = E_Adult
    /\ doc[1].description = Some(D_Quote)

----------------------------------------------------------------------------
(* C10 *)

ClaimedName(v) ==
    IF v.action.title # None THEN v.action.title[1]
    ELSE IF v.action.description # None THEN v.action.description[1]
    ELSE <<"Action " \o ToString(v.position)>>

AmendedName(v) ==
    IF v.action.title # None /\ v.action.title[1] # <<>> THEN v.action.title[1]
    ELSE IF v.action.description # None /\ v.action.description[1] # <<>>
         THEN v.action.description[1]
    ELSE <<"Action " \o ToString(v.position)>>

\* The j-th Task in creation order is the Task of the j-th action in
\* visiting order and has the given name.
TasksNamed(taskName(_)) ==
    LET tasks == OfType(F, "task") IN
    /\ Len(tasks) = Len(DocActions)
    /\ \A j \in 1..Len(tasks) : tasks[j].name = taskName(DocActions[j])

\* C10 as claimed: the Task of an action is named action.title when present,
\* else action.description when present, else "Action k", k the action's
\* 1-based position in its own sibling list.
C10_AsClaimed == Finished => TasksNamed(ClaimedName)

\* C10 as amended: the same, where a title or description that is the empty
\* string counts as not present.
C10_FallbackNaming == Finished => TasksNamed(AmendedName)

\* A finished conversion whose third sibling has neither title nor
\* description and is named "Action 3".
C10_Witness ==
    /\ Finished
    /\ doc[1].action # None
    /\ Len(doc[1].action[1]) = 3
    /\ doc[1].action[1][3].title = None
    /\ doc[1].action[1][3].description = None
    /\ \E e \in Elements(F) : e.type = "task" /\ e.name = <<"Action 3">>

----------------------------------------------------------------------------
(* C11 *)

Triggered == SelectSeq(DocActions, LAMBDA v : Len(v.action.trigger) > 0)

\* The non-empty members of a sequence of optional strings, joined with ", ".
JoinPresent(opts) ==
    LET kept == SelectSeq(opts, LAMBDA o : o # None /\ o[1] # <<>>)
    IN Join([k \in 1..Len(kept) |-> kept[k][1]], <<", ">>)

\* The triggers' names, the type where the name is absent.
ClaimedEventName(a) ==
    JoinPresent([k \in 1..Len(a.trigger) |->
                   IF a.trigger[k].name # None THEN a.trigger[k].name
                   ELSE a.trigger[k].type])

\* "Trigger: " and the triggers' names, the type where the name is absent or
\* the empty string.
AmendedEventName(a) ==
    Concat(<<"Trigger: ">>,
           JoinPresent([k \in 1..Len(a.trigger) |->
                          IF a.trigger[k].name # None /\ a.trigger[k].name[1] # <<>>
                          THEN a.trigger[k].name
                          ELSE a.trigger[k].type]))

\* The j-th IntermediateEvent in creation order belongs to the j-th action
\* with triggers in visiting order: it has the given name and the action's
\* composed documentation, and exactly one flow leads to it.
EventsMatch(eventName(_)) ==
    LET evs == OfType(F, "intermediateEvent") IN
    /\ Len(evs) = Len(Triggered)
    /\ \A j \in 1..Len(evs) :
         /\ evs[j].name = eventName(Triggered[j].action)
         /\ evs[j].documentation = buildActionDocumentation(Triggered[j].action)
         /\ Cardinality({flow \in Flows(F) : flow.targetRef = evs[j].id}) = 1

\* The step that connects a trigger event: the new flow runs from the
\* frontier to the event, and the frontier becomes the event.
TriggerWired ==
    (pc = "walk" /\ Top.pc = "triggerFlow") =>
      /\ Len(F'.elements) = Len(F.elements) + 1
      /\ NodeById(F, Top.eventId).type = "intermediateEvent"
      /\ LET flow == Last(F'.elements) IN
           /\ IsFlow(flow)
           /\ flow.sourceRef = Top.lastElementId
           /\ flow.targetRef = Top.eventId
           /\ flow.sourceRef \in NodeIds(F) \ {Top.eventId}
      /\ Last(stack').lastElementId = Top.eventId

\* C11 as claimed: for an action with one or more triggers the walker
\* creates exactly one IntermediateEvent whose name is exactly the triggers'
\* names (type when name is absent), empty values filtered out, joined with
\* ", "; the event carries the action's composed documentation, is connected
\* by a flow from the current frontier, and the frontier advances to it.
C11_AsClaimed ==
    /\ [](Finished => EventsMatch(ClaimedEventName))
    /\ [][TriggerWired]_vars

\* C11 as amended: the same, with the event named "Trigger: " followed by the
\* joined names, where a trigger contributes its name when that is a
\* non-empty string and its type otherwise.
C11_TriggerEvent ==
    /\ [](Finished => EventsMatch(AmendedEventName))
    /\ [][TriggerWired]_vars

\* A finished conversion of an action whose three triggers are one without
\* name and type, one with an empty name and a type, and one with a name only.
C11_Witness ==
    /\ Finished
    /\ \E j \in 1..Len(Triggered) : Len(Triggered[j].action.trigger) = 3
    /\ \E e \in Elements(F) :
          /\ e.type = "intermediateEvent"
          /\ e.name = <<"Trigger: named-event, admit">>
          /\ e.documentation # <<>>

----------------------------------------------------------------------------
(* C12 *)

\* C12: createSequenceFlow with a source or target identifier the builder
\* never issued does not complete normally and adds no flow: there is never
\* a flow in the graph whose sourceRef or targetRef names a non-existent node.
C12_UnknownIdRejected ==
    \A k \in 1..Len(factories) :
      \A flow \in Flows(factories[k]) :
        /\ flow.sourceRef \in NodeIds(factories[k])
        /\ flow.targetRef \in NodeIds(factories[k])

----------------------------------------------------------------------------
(* C13 *)

\* The conversion whose locals are t has made its last builder call.
Built(p) == p \in {"serialize", "done"}

\* The builder of a conversion equals the builder of the same conversion
\* run alone: elements, shapes and edges, counters and cursor.
SameAsAlone(d, t) == factories[t.factory] = convertPlanDefinitionToBpmn(d[1]).factory

\* A step of the running conversion leaves the suspended one's builder as
\* it was, and the two conversions hold different builders.
OtherBuilderUntouched ==
    (parked # None /\ parked[1].top.factory # 0) =>
      /\ factories'[parked[1].top.factory] = factories[parked[1].top.factory]
      /\ top.factory # parked[1].top.factory

\* C13: when two conversions each use their own builder and their builder
\* operations are interleaved in any order, each conversion's nodes, flows,
\* ids and layout are the same as when it runs alone, and no operation of
\* one reads or changes the counters, cursor or collections of the other.
C13_Isolation ==
    /\ [](Built(pc) => SameAsAlone(doc, top))
    /\ []((parked # None /\ Built(parked[1].pc)) => SameAsAlone(parked[1].doc, parked[1].top))
    /\ [][OtherBuilderUntouched]_vars

\* Both conversions are done; the one that constructed its builder first
\* returned last, so the other's calls fell between its calls; both graphs
\* have tasks.
C13_Witness ==
    /\ pc = "done"
    /\ parked # None
    /\ parked[1].pc = "done"
    /\ parked[1].top.factory = 1
    /\ top.factory = 2
    /\ Len(outputs) = 2
    /\ outputs[1].xml = convertPlanDefinitionToBpmn(doc[1]).xml
    /\ outputs[1] # outputs[2]
    /\ OfType(factories[1], "task") # <<>>
    /\ OfType(factories[2], "task") # <<>>

----------------------------------------------------------------------------
(* C14 *)

\* Positions in a list of the records whose field has value v.
Positions(list, field, v) == {k \in 1..Len(list) : list[k][field] = v}

\* The element at position k is a flow created when both its endpoints were
\* nodes of the graph: each is a node at an earlier position.
EndpointsBefore(f, k) ==
    \A ref \in {f.elements[k].sourceRef, f.elements[k].targetRef} :
      \E j \in 1..(k - 1) : IsNode(f.elements[j]) /\ f.elements[j].id = ref

\* The flow has an edge, registered after the shapes of both endpoints (the
\* edge is registered in the creating call, and only when both shapes exist).
ShapesBefore(f, flow) ==
    \E e \in Positions(f.diElements, "bpmnElement", flow.id) :
      /\ "waypoints" \in DOMAIN f.diElements[e]
      /\ \A ref \in {flow.sourceRef, flow.targetRef} :
           \E j \in 1..(e - 1) :
             /\ f.diElements[j].bpmnElement = ref
             /\ "waypoints" \notin DOMAIN f.diElements[j]

\* C14: during any conversion every createSequenceFlow call happens after
\* both its source node and its target node have been created: in the
\* creation-ordered element list every flow comes after both nodes it
\* references, and both nodes had a layout shape when the flow was created.
C14_FlowsAfterNodes ==
    Converting =>
      \A k \in 1..Len(F.elements) :
        IsFlow(F.elements[k]) =>
          /\ EndpointsBefore(F, k)
          /\ ShapesBefore(F, F.elements[k])

\* The walker is inside a nested call, about to connect a gateway to its
\* task, with several flows already created.
C14_Witness ==
    /\ pc = "walk"
    /\ Len(stack) = 2
    /\ Top.pc = "yesFlow"
    /\ Len(OfType(F, "sequenceFlow")) >= 3
    /\ OfType(F, "intermediateEvent") # <<>>

----------------------------------------------------------------------------
(* C15 *)

\* The walker has created the Task of an action with triggers and a
\* condition and not yet the flow into it: the five elements created last
\* are the trigger event, the flow from the earlier frontier to the event,
\* the gateway, the flow from the event to the gateway, and the Task; no
\* other flow leads to the gateway.
TriggerThenGateway ==
    (pc = "walk" /\ Top.pc = "yesFlow" /\ Len(Action.trigger) > 0) =>
      LET n == Len(F.elements)
          event == F.elements[n - 4]
          toEvent == F.elements[n - 3]
          gateway == F.elements[n - 2]
          toGateway == F.elements[n - 1]
          task == F.elements[n]
      IN /\ n >= 6
         /\ event.type = "intermediateEvent" /\ event.id = Top.eventId
         /\ IsFlow(toEvent) /\ toEvent.targetRef = event.id
         /\ toEvent.sourceRef \notin {event.id, gateway.id, task.id}
         /\ gateway.type = "exclusiveGateway" /\ gateway.id = Top.gatewayId
         /\ IsFlow(toGateway)
         /\ toGateway.sourceRef = event.id /\ toGateway.targetRef = gateway.id
         /\ {fl \in Flows(F) : fl.targetRef = gateway.id} = {toGateway}
         /\ task.type = "task" /\ task.id = Top.taskId

\* The next step connects the gateway to the Task and makes the Task the
\* frontier: of the loop's next iteration, or of the call for the sub-actions.
TaskBecomesFrontier ==
    (pc = "walk" /\ Top.pc = "yesFlow" /\ Len(Action.trigger) > 0) =>
      /\ Len(F'.elements) = Len(F.elements) + 1
      /\ Last(F'.elements).sourceRef = Top.gatewayId
      /\ Last(F'.elements).targetRef = Top.taskId
      /\ Last(stack').lastElementId = Top.taskId
      /\ Len(stack') = Len(stack) + (IF Len(Action.action) > 0 THEN 1 ELSE 0)

\* C15: for an action with both triggers and a condition the walker emits,
\* in this order and wired in this order, frontier -> IntermediateEvent ->
\* ExclusiveGateway -> Task: the gateway's incoming flow comes from the
\* trigger event, not from the earlier frontier, and the frontier after the
\* action is the Task.
C15_TriggerBeforeGateway ==
    /\ []TriggerThenGateway
    /\ [][TaskBecomesFrontier]_vars

\* A finished conversion of a triggered, conditioned action: its event is
\* followed by its gateway and that by its task.
C15_Witness ==
    /\ Finished
    /\ \E j \in 1..Len(DocActions) :
          Len(DocActions[j].action.trigger) > 0 /\ Len(DocActions[j].action.condition) > 0
    /\ \E a, b \in Flows(F) :
          /\ NodeById(F, a.sourceRef).type = "intermediateEvent"
          /\ NodeById(F, a.targetRef).type = "exclusiveGateway"
          /\ b.sourceRef = a.targetRef
          /\ NodeById(F, b.targetRef).type = "task"

----------------------------------------------------------------------------
(* C16 *)

\* C16: for every valid input the finished graph contains exactly one Task
\* per action of the tree counted at every nesting depth, exactly one
\* ExclusiveGateway per action with at least one condition, exactly one
\* IntermediateEvent per action with at least one trigger, exactly one
\* StartEvent and exactly one EndEvent.
C16_NodeCounts ==
    Finished =>
      /\ Len(OfType(F, "task")) = Len(DocActions)
      /\ Len(OfType(F, "exclusiveGateway")) = Len(Conditioned)
      /\ Len(OfType(F, "intermediateEvent")) = Len(Triggered)
      /\ Len(OfType(F, "startEvent")) = 1
      /\ Len(OfType(F, "endEvent")) = 1
      /\ Cardinality(Nodes(F)) = Len(DocActions) + Len(Conditioned) + Len(Triggered) + 2

\* A finished conversion of a three-deep chain of actions whose conditioned
\* action has a sub-action.
C16_Witness ==
    /\ Finished
    /\ Len(DocActions) = 3
    /\ doc[1].action # None
    /\ Len(doc[1].action[1]) = 1
    /\ Len(doc[1].action[1][1].action) = 1
    /\ Len(doc[1].action[1][1].action[1].action) = 1
    /\ \E j \in 1..Len(Conditioned) : Conditioned[j].action.action # <<>>
    /\ Len(OfType(F, "task")) = 3

----------------------------------------------------------------------------
(* C17 *)

\* The node created last.
LastNode(f) == Last(SelectSeq(f.elements, IsNode))

\* The call for an action's sub-actions starts from the action's own Task,
\* in the plain and in the conditioned branch.
NestedFromOwnTask ==
    (pc = "walk" /\ Len(stack') = Len(stack) + 1) =>
      /\ Top.pc = (IF Len(Action.condition) > 0 THEN "yesFlow" ELSE "taskFlow")
      /\ NodeById(F', Top.taskId).type = "task"
      /\ Last(stack').actions = Action.action
      /\ Last(stack').i = 0
      /\ Last(stack').lastElementId = Top.taskId

\* Every flow the walker creates into an event, a gateway or a plain task
\* starts at the frontier of the running call.
WiredFromFrontier ==
    (pc = "walk" /\ Top.pc \in {"triggerFlow", "gatewayFlow", "taskFlow"}) =>
      /\ Len(F'.elements) = Len(F.elements) + 1
      /\ IsFlow(Last(F'.elements))
      /\ Last(F'.elements).sourceRef = Top.lastElementId

\* processActions returns the node created last, a Task; the caller's
\* frontier becomes that node, which is not the Task the sub-walk started from.
ReturnsLastDescendant ==
    (pc = "walk" /\ Top.pc = "return") =>
      /\ Top.lastElementId = LastNode(F).id
      /\ LastNode(F).type = "task"
      /\ IF Len(stack) = 1
         THEN top'.lastElementId = Top.lastElementId /\ pc' = "end"
         ELSE /\ Last(stack').lastElementId = Top.lastElementId
              /\ Top.lastElementId # stack[Len(stack) - 1].taskId
              /\ Last(stack').i = stack[Len(stack) - 1].i + 1

\* The EndEvent is connected from the frontier convertPlanDefinitionToBpmn
\* holds, and in the finished graph a Task with sub-actions leads into the
\* chain of its first sub-action: the node created right after it.
EndFromFrontier ==
    /\ Finished =>
         \E flow \in Flows(F) :
           /\ flow.targetRef = top.endEventId
           /\ flow.sourceRef = top.lastElementId
           /\ flow.sourceRef = SelectSeq(F.elements, IsNode)[Cardinality(Nodes(F)) - 1].id
    /\ Finished =>
         LET tasks == OfType(F, "task")
             nodes == SelectSeq(F.elements, IsNode)
         IN \A j \in 1..Len(DocActions) :
              DocActions[j].action.action # <<>> =>
                \E flow \in Flows(F), k \in 1..(Len(nodes) - 1) :
                  /\ nodes[k] = tasks[j]
                  /\ flow.sourceRef = tasks[j].id
                  /\ flow.targetRef = nodes[k + 1].id

\* C17: when an action has nested sub-actions, the first sub-action's chain
\* is wired from that action's own Task (also when the action is
\* conditioned), processActions returns the last node of the deepest last
\* descendant, and the next sibling action (or the EndEvent after the last
\* top-level action) is wired from that returned node, not the parent's Task.
C17_NestedWiring ==
    /\ []EndFromFrontier
    /\ [][NestedFromOwnTask /\ WiredFromFrontier /\ ReturnsLastDescendant]_vars

\* A finished conversion of two top-level actions, the first conditioned
\* with one sub-action: the second is wired from the sub-action's Task.
C17_Witness ==
    /\ Finished
    /\ doc[1].action # None
    /\ Len(doc[1].action[1]) = 2
    /\ doc[1].action[1][1].condition # <<>>
    /\ Len(doc[1].action[1][1].action) = 1
    /\ \E flow \in Flows(F) :
          /\ flow.sourceRef = OfType(F, "task")[2].id
          /\ flow.targetRef # top.endEventId
    /\ \A flow \in Flows(F) :
          flow.sourceRef = OfType(F, "task")[1].id =>
            flow.targetRef \in {OfType(F, "task")[2].id} \cup
                               {e.id : e \in {n \in Nodes(F) : n.type = "intermediateEvent"}}

----------------------------------------------------------------------------
(* C18 *)

IsShape(di) == "waypoints" \notin DOMAIN di
IsEdge(di) == "waypoints" \in DOMAIN di

\* The shapes of a builder in the order they were registered.
Shapes(f) == SelectSeq(f.diElements, IsShape)
NodeSeq(f) == SelectSeq(f.elements, IsNode)

\* Width and height by node kind.
KindSize(type) ==
    CASE type \in {"startEvent", "endEvent", "intermediateEvent"} -> [w |-> 36, h |-> 36]
      [] type = "task" -> [w |-> 120, h |-> 80]
      [] type = "exclusiveGateway" -> [w |-> 50, h |-> 50]

\* The k-th node has the k-th shape: fixed size for its kind, centred on
\* y = 150, placed where the cursor stood, which is 100 for the first node
\* and the previous shape's x + width + 180 after that.
Placement(f) ==
    LET shapes == Shapes(f)
        nodes == NodeSeq(f)
    IN /\ Len(shapes) = Len(nodes)
       /\ \A k \in 1..Len(shapes) :
            /\ shapes[k].bpmnElement = nodes[k].id
            /\ shapes[k].width = KindSize(nodes[k].type).w
            /\ shapes[k].height = KindSize(nodes[k].type).h
            /\ 2 * shapes[k].y = 2 * 150 - shapes[k].height
            /\ shapes[k].x = (IF k = 1 THEN 100
                              ELSE shapes[k - 1].x + shapes[k - 1].width + 180)
       /\ f.currentX = (IF shapes = <<>> THEN 100
                        ELSE Last(shapes).x + Last(shapes).width + 180)

\* No two shapes share a point of the x axis.
DisjointExtents(f) ==
    \A i, j \in 1..Len(Shapes(f)) :
      i # j => \/ Shapes(f)[i].x + Shapes(f)[i].width < Shapes(f)[j].x
               \/ Shapes(f)[j].x + Shapes(f)[j].width < Shapes(f)[i].x

\* A call that creates a node places its shape at the cursor and advances
\* the cursor by the shape's width + 180; a call that creates a flow leaves
\* the cursor where it was.
CursorStep(k) ==
    LET before == factories[k]
        after == factories'[k]
    IN /\ after.currentX >= before.currentX
       /\ IF Len(NodeSeq(after)) > Len(NodeSeq(before))
          THEN /\ Last(Shapes(after)).x = before.currentX
               /\ after.currentX = before.currentX + Last(Shapes(after)).width + 180
          ELSE after.currentX = before.currentX

\* C18: each node-creation operation places the node's shape at the cursor
\* value x current at the call, with fixed per-kind width and height (event
\* 36x36, task 120x80, gateway 50x50) and y = 150 - height/2, then advances
\* x by exactly width + 180; the cursor starts at 100, never decreases under
\* node-creation and flow-creation operations, and the shapes of any two
\* nodes have disjoint horizontal extents.
C18_Layout ==
    /\ [](\A k \in 1..Len(factories) :
            Placement(factories[k]) /\ DisjointExtents(factories[k]))
    /\ [][\A k \in 1..Len(factories) : CursorStep(k)]_vars

\* A caller has created a start event, a task and a gateway, and a flow:
\* the cursor stands at 100 + 216 + 300 + 230.
C18_Witness ==
    /\ pc = "api"
    /\ Len(OfType(F, "startEvent")) = 1
    /\ Len(OfType(F, "task")) = 1
    /\ Len(OfType(F, "exclusiveGateway")) = 1
    /\ Len(OfType(F, "sequenceFlow")) = 1
    /\ F.currentX = 846

----------------------------------------------------------------------------
(* C19 *)

ShapeOf(f, nodeId) == CHOOSE sh \in Range(Shapes(f)) : sh.bpmnElement = nodeId
EdgesOf(f, flowId) == SelectSeq(f.diElements, LAMBDA di : IsEdge(di) /\ di.bpmnElement = flowId)

\* C19: for every flow created between two existing nodes the registered
\* edge has exactly two waypoints, the first at (source.x + source.width,
\* source.y + source.height/2) and the second at (target.x, target.y +
\* target.height/2); both lie on the centre line y = 150 whatever the kinds
\* of the endpoints.
C19_Waypoints ==
    \A k \in 1..Len(factories) :
      LET f == factories[k] IN
      \A flow \in Flows(f) :
        (flow.sourceRef \in NodeIds(f) /\ flow.targetRef \in NodeIds(f)) =>
          LET edges == EdgesOf(f, flow.id)
              src == ShapeOf(f, flow.sourceRef)
              tgt == ShapeOf(f, flow.targetRef)
          IN /\ Len(edges) = 1
             /\ edges[1].id = flow.id \o "_di"
             /\ Len(edges[1].waypoints) = 2
             /\ edges[1].waypoints[1].x = src.x + src.width
             /\ 2 * edges[1].waypoints[1].y = 2 * src.y + src.height
             /\ edges[1].waypoints[2].x = tgt.x
             /\ 2 * edges[1].waypoints[2].y = 2 * tgt.y + tgt.height
             /\ edges[1].waypoints[1].y = 150
             /\ edges[1].waypoints[2].y = 150

\* A caller has connected a task to a gateway and the gateway back to the
\* task: endpoints of different heights, and an edge that runs right to left.
C19_Witness ==
    /\ pc = "api"
    /\ \E a, b \in Flows(F) :
          /\ a.sourceRef = b.targetRef /\ a.targetRef = b.sourceRef
          /\ a.sourceRef \in NodeIds(F) /\ a.targetRef \in NodeIds(F)
          /\ NodeById(F, a.sourceRef).type = "task"
          /\ NodeById(F, a.targetRef).type = "exclusiveGateway"
          /\ EdgesOf(F, b.id)[1].waypoints[2].x < EdgesOf(F, b.id)[1].waypoints[1].x

----------------------------------------------------------------------------
(* C20 *)

IsPrefix(a, b) == Len(a) <= Len(b) /\ SubSeq(b, 1, Len(a)) = a

\* The element e after a call that created the flow: the flow's id appended
\* to outgoing when e is the source and to incoming when e is the target,
\* every other field as it was.
WithFlow(e, after, flow) ==
    LET added == (IF e.id = flow.sourceRef THEN {"outgoing"} ELSE {})
                 \cup (IF e.id = flow.targetRef THEN {"incoming"} ELSE {})
    IN /\ DOMAIN after = DOMAIN e \cup added
       /\ \A fld \in DOMAIN after :
            after[fld] = (IF fld \in added THEN Field(e, fld) \o <<flow.id>> ELSE e[fld])

\* The effect of one step on the builder at position k.
FrameOfStep(k) ==
    LET before == factories[k]
        after == factories'[k]
        n == Len(before.elements)
    IN /\ IsPrefix(before.diElements, after.diElements)
       /\ Len(after.elements) \in {n, n + 1}
       /\ Len(after.elements) = n => after = before
       /\ (Len(after.elements) = n + 1 /\ IsNode(Last(after.elements))) =>
            /\ IsPrefix(before.elements, after.elements)
            /\ after.flowCounter = before.flowCounter
            /\ Len(after.diElements) = Len(before.diElements) + 1
            /\ IsShape(Last(after.diElements))
       /\ (Len(after.elements) = n + 1 /\ IsFlow(Last(after.elements))) =>
            /\ \A i \in 1..n :
                 WithFlow(before.elements[i], after.elements[i], Last(after.elements))
            /\ after.currentX = before.currentX
            /\ after.currentY = before.currentY
            /\ after.elementCounter = before.elementCounter
            /\ Shapes(after) = Shapes(before)
            /\ Len(after.diElements) <= Len(before.diElements) + 1

\* C20: the builder's collections are append-only: no operation removes or
\* reorders an element or layout entry; a node-creation operation leaves
\* every existing node, flow, shape and edge and the flow counter unchanged;
\* createSequenceFlow changes existing state only by appending its id to the
\* source's outgoing list and the target's incoming list, and leaves the
\* layout cursor, the node counter, all shapes and all other nodes' lists
\* unchanged.
C20_AppendOnly ==
    [][\A k \in 1..Len(factories) : FrameOfStep(k)]_vars

\* A caller has connected the start event to a task twice: both lists hold
\* both flows after what they held before.
C20_Witness ==
    /\ pc = "api"
    /\ \E s, t \in Nodes(F) :
          /\ s.type = "startEvent"
          /\ t.type = "task"
          /\ s.outgoing = <<"Flow_1", "Flow_2">>
          /\ t.incoming = <<"temp_incoming", "Flow_1", "Flow_2">>
          /\ t.outgoing = <<>>

----------------------------------------------------------------------------
(* C21 *)

\* The layout entries written in the XML, in output order: for each opening
\* tag of a shape or an edge, its kind and the value of its bpmnElement
\* attribute.
DiOpeners ==
    {"      <bpmndi:BPMNShape id=\"", "      <bpmndi:BPMNEdge id=\""}

EmittedDi(xml) ==
    LET at == SelectSeq([i \in 1..Len(xml) |-> i],
                        LAMBDA i : "lit" \in DOMAIN xml[i] /\ xml[i].lit \in DiOpeners)
    IN [k \in 1..Len(at) |->
          [edge |-> xml[at[k]].lit = "      <bpmndi:BPMNEdge id=\"",
           id |-> xml[at[k] + 1].val,
           bpmnElement |-> xml[at[k] + 3].val]]

\* The layout entries of the builder, in creation order, as they should
\* appear (identifiers have no character that escaping changes).
ExpectedDi(f) ==
    [k \in 1..Len(f.diElements) |->
       [edge |-> IsEdge(f.diElements[k]),
        id |-> <<f.diElements[k].id>>,
        bpmnElement |-> <<f.diElements[k].bpmnElement>>]]

\* C21: for every valid input the layout data handed to the serializer has
\* exactly one shape entry for each node and exactly one edge entry for each
\* sequence flow, each keyed to an element of the graph, and the serializer
\* emits them in creation order with no entry omitted or duplicated.
C21_LayoutEntries ==
    Finished =>
      /\ \A n \in Nodes(F) :
           Cardinality({k \in 1..Len(F.diElements) :
                          F.diElements[k].bpmnElement = n.id}) = 1
           /\ \A k \in 1..Len(F.diElements) :
                F.diElements[k].bpmnElement = n.id => IsShape(F.diElements[k])
      /\ \A flow \in Flows(F) :
           Cardinality({k \in 1..Len(F.diElements) :
                          F.diElements[k].bpmnElement = flow.id}) = 1
           /\ \A k \in 1..Len(F.diElements) :
                F.diElements[k].bpmnElement = flow.id => IsEdge(F.diElements[k])
      /\ \A k \in 1..Len(F.diElements) :
           \E e \in Elements(F) : e.id = F.diElements[k].bpmnElement
      /\ Len(F.diElements) = Len(F.elements)
      /\ EmittedDi(outputs[run].xml) = ExpectedDi(F)

\* A finished conversion whose XML lists at least four shapes and three
\* edges, a gateway's shape among them.
C21_Witness ==
    /\ Finished
    /\ Len(SelectSeq(EmittedDi(outputs[run].xml), LAMBDA d : d.edge)) >= 3
    /\ Len(SelectSeq(EmittedDi(outputs[run].xml), LAMBDA d : ~d.edge)) >= 4
    /\ \E k \in 1..Len(EmittedDi(outputs[run].xml)) :
          EmittedDi(outputs[run].xml)[k].bpmnElement = <<"Gateway_2">>

----------------------------------------------------------------------------
(* C22 *)

\* C22: for every valid input the finished graph is a single linear chain
\* in creation order: with N nodes there are exactly N-1 flows, the k-th
\* created flow goes from the k-th created node to the (k+1)-th created
\* node, the StartEvent is first and the EndEvent is last, and every node
\* other than the EndEvent has exactly one outgoing flow; every edge runs
\* left to right across a gap of exactly 180.
C22_LinearChain ==
    Finished =>
      LET nodes == NodeSeq(F)
          flows == OfType(F, "sequenceFlow")
          N == Len(nodes)
      IN /\ N >= 2
         /\ Len(flows) = N - 1
         /\ \A k \in 1..(N - 1) :
              /\ flows[k].sourceRef = nodes[k].id
              /\ flows[k].targetRef = nodes[k + 1].id
              /\ nodes[k].outgoing = <<flows[k].id>>
              /\ LET edge == EdgesOf(F, flows[k].id)[1] IN
                   /\ edge.waypoints[1].x < edge.waypoints[2].x
                   /\ edge.waypoints[2].x - edge.waypoints[1].x = 180
         /\ nodes[1].type = "startEvent"
         /\ nodes[N].type = "endEvent"
         /\ \A k \in 2..(N - 1) : nodes[k].type \notin {"startEvent", "endEvent"}
         /\ \A flow \in Flows(F) : flow.sourceRef # nodes[N].id

\* A finished conversion of nested actions with a trigger and a condition:
\* a chain of at least seven nodes with a gateway inside it.
C22_Witness ==
    /\ Finished
    /\ Len(NodeSeq(F)) >= 7
    /\ Len(stack) = 0
    /\ \E j \in 1..Len(DocActions) : DocActions[j].action.action # <<>>
    /\ OfType(F, "exclusiveGateway") # <<>>
    /\ OfType(F, "intermediateEvent") # <<>>
    /\ \A g \in Range(OfType(F, "exclusiveGateway")) : Len(g.outgoing) = 1

====
